---- MODULE Spec2Model ----
(***************************************************************************)
(* Model of the mashu-csv-db2 extraction pipeline.                         *)
(*                                                                         *)
(* Run (db2.go:49-65) starts two goroutines, extractTables and             *)
(* extractColumns, connected by unbuffered channels, and drains the        *)
(* second one in writeCSV (rdbms.go:60-77).  The three dialects            *)
(* (Db2Extractor, ZDb2Extractor, IDb2Extractor) share this code verbatim;  *)
(* they differ only in catalog names and in the row mappers.               *)
(*                                                                         *)
(* A table row is abstracted to the qualified key toMetadata computes for  *)
(* it (FormalName), a column row to the owning key toColumn computes.      *)
(* Keys are 1..MaxKey; key 0 is the empty FormalName of the zero Metadata, *)
(* which no column key equals (toColumn's key always contains ".").        *)
(* A column is identified by its position in the column result set.        *)
(* An unbuffered channel operation is a joint step of sender and receiver. *)
(***************************************************************************)
EXTENDS Integers, Sequences, FiniteSets, TLC

MaxKey == 3
MaxCols == 3

Keys == 1..MaxKey

VARIABLES
    tables,      \* result set of the table query: sequence of keys
    columns,     \* result set of the column query: sequence of owning keys
    tblPc,       \* position of the extractTables goroutine
    tblIdx,      \* cursor of the table result set (rows.Next count)
    tblErr,      \* err of the extractTables goroutine, "" = nil
    colPc,       \* position of the extractColumns goroutine
    colIdx,      \* cursor of the column result set
    metaNil,     \* meta == nil
    meta,        \* *meta when meta != nil
    col,         \* held column (index in columns), 0 when col == nil
    formalName,  \* owning key of the held column, 0 = ""
    pulls,       \* number of values received from the table channel
    mip,         \* the envelope received with a non-nil Err
    runPc,       \* position of Run / writeCSV
    cur,         \* envelope received by writeCSV
    sink,        \* Metadata values written to out, in write order
    runErr,      \* value returned by Run
    cancelled,   \* myCtx is done
    emitted,     \* history: envelopes sent on extractColumns' output
    tblSent,     \* history: table rows sent on extractTables' output
    faults,      \* history: set of failures injected so far
    cancelMid,   \* history: the caller cancelled while streaming
    colExit,     \* history: how extractColumns returned
    csv,         \* a Metadata and its ToCSVString text
    row,         \* a scanned Row and its Map
    cli,         \* the state of main
    dia          \* a dialect mapper applied to a row mapping

\* The variables of the pipeline.
pipeVars == <<tables, columns, tblPc, tblIdx, tblErr, colPc, colIdx, metaNil,
              meta, col, formalName, pulls, mip, runPc, cur, sink, runErr,
              cancelled, emitted, tblSent, faults, cancelMid, colExit>>

\* The variables of the specifications of single functions and of main.
auxVars == <<csv, row, cli, dia>>

vars == <<pipeVars, auxVars>>

inputVars == <<tables, columns, auxVars>>
tblVars == <<tblPc, tblIdx, tblErr, tblSent>>
colVars == <<colPc, colIdx, metaNil, meta, col, formalName, pulls, mip,
            colExit>>
runVars == <<runPc, cur, sink, runErr>>

----------------------------------------------------------------------------
(* Data *)

\* The zero Metadata: FormalName "" and no columns.  src is the row of the
\* table result set the value was built from (0: built from no row), pull is
\* the ordinal of the receive that handed it to the correlator.
ZeroMeta == [src |-> 0, key |-> 0, cols |-> <<>>, pull |-> 0]

\* toMetadata of table row i.
toMetadata(i) == [src |-> i, key |-> tables[i], cols |-> <<>>, pull |-> 0]

\* toColumn of column row j: the column and its owning key.
toColumn(j) == [col |-> j, formalName |-> columns[j]]

DataEnv(m) == [err |-> "", data |-> m]
ErrEnv(kind) == [err |-> kind, data |-> ZeroMeta]

\* The value a receive yields on a closed channel.
ZeroEnv == [err |-> "", data |-> ZeroMeta]

\* An append that puts the new column first.
AppendColumnFront(m, c) == [m EXCEPT !.cols = <<c>> \o @]

\* meta.Columns = append(meta.Columns, *col)
AppendColumn(m, c) == [m EXCEPT !.cols = Append(@, c)]

\* All strictly increasing sequences over Keys (ORDER BY schema, name; the
\* qualified name of a table is unique in the catalog).
RECURSIVE IncSeqs(_, _)
IncSeqs(lo, n) ==
    IF n = 0 THEN {<<>>}
    ELSE {<<>>} \cup UNION {{<<k>> \o s : s \in IncSeqs(k + 1, n - 1)} : k \in lo..MaxKey}

\* All non-decreasing sequences over Keys of length at most n (ORDER BY
\* schema, name, position).
RECURSIVE NonDecSeqs(_, _)
NonDecSeqs(lo, n) ==
    IF n = 0 THEN {<<>>}
    ELSE {<<>>} \cup UNION {{<<k>> \o s : s \in NonDecSeqs(k, n - 1)} : k \in lo..MaxKey}

\* Value of a variable that the specification at hand does not use.
Unused == [op |-> "unused"]

\* The pipeline before Run is called, with empty result sets.
PipeIdle ==
    /\ tables = <<>>
    /\ columns = <<>>
    /\ tblPc = "idle"
    /\ tblIdx = 0
    /\ tblErr = ""
    /\ colPc = "idle"
    /\ colIdx = 0
    /\ metaNil = TRUE
    /\ meta = ZeroMeta
    /\ col = 0
    /\ formalName = 0
    /\ pulls = 0
    /\ mip = ZeroEnv
    /\ runPc = "open"
    /\ cur = ZeroEnv
    /\ sink = <<>>
    /\ runErr = "none"
    /\ cancelled = FALSE
    /\ emitted = <<>>
    /\ tblSent = <<>>
    /\ faults = {}
    /\ cancelMid = FALSE
    /\ colExit = "none"

----------------------------------------------------------------------------
Init ==
    /\ tables \in IncSeqs(1, MaxKey)
    /\ columns \in NonDecSeqs(1, MaxCols)
    /\ tblPc = "idle"
    /\ tblIdx = 0
    /\ tblErr = ""
    /\ colPc = "idle"
    /\ colIdx = 0
    /\ metaNil = TRUE
    /\ meta = ZeroMeta
    /\ col = 0
    /\ formalName = 0
    /\ pulls = 0
    /\ mip = ZeroEnv
    /\ runPc = "open"
    /\ cur = ZeroEnv
    /\ sink = <<>>
    /\ runErr = "none"
    /\ cancelled = FALSE
    /\ emitted = <<>>
    /\ tblSent = <<>>
    /\ faults = {}
    /\ cancelMid = FALSE
    /\ colExit = "none"
    /\ csv = Unused
    /\ row = Unused
    /\ cli = Unused
    /\ dia = Unused

----------------------------------------------------------------------------
(* Run and writeCSV *)

\* Run returns v; its deferred cancel() fires.
RunReturn(v) ==
    /\ runPc' = "returned"
    /\ runErr' = v
    /\ cancelled' = TRUE

\* A writer that puts the newest record first.
SinkWritePrepend(s, m) == <<m>> \o s

\* out.Write([]byte(m.Data.ToCSVString())) succeeded.
SinkWrite(s, m) == Append(s, m)

\* sql.Open, then the two stages are started and writeCSV is entered.
RunOpen ==
    /\ runPc = "open"
    /\ \/ /\ runPc' = "select"
          /\ tblPc' = "list"
          /\ colPc' = "list"
          /\ UNCHANGED <<runErr, cancelled, faults>>
       \/ /\ RunReturn("open")
          /\ faults' = faults \cup {"open"}
          /\ UNCHANGED <<tblPc, colPc>>
    /\ UNCHANGED <<inputVars, tblIdx, tblErr, tblSent, colIdx, metaNil, meta,
                   col, formalName, pulls, mip, colExit, cur, sink, emitted,
                   cancelMid>>

\* The caller cancels the context passed to Run.
Cancel ==
    /\ ~cancelled
    /\ runPc # "returned"
    /\ cancelled' = TRUE
    /\ cancelMid' = (runPc \in {"select", "write"} /\ colPc # "done")
    /\ faults' = faults \cup {"cancel"}
    /\ UNCHANGED <<inputVars, tblVars, colVars, runVars, emitted>>

\* writeCSV: case <-ctx.Done(): return ctx.Err()
WriterCtxDone ==
    /\ runPc = "select"
    /\ cancelled
    /\ RunReturn("ctx")
    /\ UNCHANGED <<inputVars, tblVars, colVars, cur, sink, emitted, faults,
                   cancelMid>>

\* writeCSV: case m, ok := <-input with !ok: return nil
WriterClosed ==
    /\ runPc = "select"
    /\ colPc = "done"
    /\ RunReturn("nil")
    /\ UNCHANGED <<inputVars, tblVars, colVars, cur, sink, emitted, faults,
                   cancelMid>>

\* writeCSV's half of a send on extractColumns' output: case m, ok := <-input.
WriterRecv(env) ==
    /\ runPc = "select"
    /\ runPc' = "write"
    /\ cur' = env
    /\ emitted' = Append(emitted, env)
    /\ UNCHANGED <<sink, runErr, cancelled, cancelMid>>

\* A writer that goes on with the next envelope after a failed write.
WriterWriteIgnoreErr ==
    /\ runPc = "write"
    /\ \/ /\ sink' = SinkWrite(sink, cur.data)
          /\ UNCHANGED faults
       \/ /\ faults' = faults \cup {"sink"}
          /\ UNCHANGED sink
    /\ runPc' = "select"
    /\ UNCHANGED <<runErr, cancelled>>
    /\ UNCHANGED <<inputVars, tblVars, colVars, cur, emitted, cancelMid>>

\* writeCSV: out.Write of the received envelope's Data; a failure is returned.
WriterWrite ==
    /\ runPc = "write"
    /\ \/ /\ sink' = SinkWrite(sink, cur.data)
          /\ runPc' = "select"
          /\ UNCHANGED <<runErr, cancelled, faults>>
       \/ /\ RunReturn("write")
          /\ faults' = faults \cup {"sink"}
          /\ UNCHANGED sink
    /\ UNCHANGED <<inputVars, tblVars, colVars, cur, emitted, cancelMid>>

----------------------------------------------------------------------------
(* extractTables *)

\* What the stages other than extractTables and the correlator keep.
TblOnly == UNCHANGED <<inputVars, colVars, runVars, cancelled, emitted, cancelMid>>

\* A call that takes the context (ColumnList, Exec) or reads rows bound to it
\* (Scan) fails: with a database error at any time, with the context's error
\* once the context is done.  The error envelope is then sent unconditionally.
TblFail ==
    \/ /\ tblErr' = "tbl"
       /\ faults' = faults \cup {"tbl"}
    \/ /\ cancelled
       /\ tblErr' = "ctx"
       /\ UNCHANGED faults

\* cols, err := ColumnList(ctx, e.pool, ...)
TblColumnList ==
    /\ tblPc = "list"
    /\ \/ tblPc' = "exec" /\ UNCHANGED <<tblErr, faults>>
       \/ tblPc' = "sendErr" /\ TblFail
    /\ UNCHANGED <<tblIdx, tblSent>>
    /\ TblOnly

\* query.Exec
TblExec ==
    /\ tblPc = "exec"
    /\ \/ tblPc' = "next" /\ UNCHANGED <<tblErr, faults>>
       \/ tblPc' = "sendErr" /\ TblFail
    /\ UNCHANGED <<tblIdx, tblSent>>
    /\ TblOnly

\* rows.Next(): false at the end of the result set, and possibly earlier once
\* the context is done (database/sql closes the rows); then the goroutine
\* returns and its deferred close(output) runs.
TblNext ==
    /\ tblPc = "next"
    /\ \/ /\ tblIdx < Len(tables)
          /\ tblIdx' = tblIdx + 1
          /\ tblPc' = "scan"
       \/ /\ tblIdx = Len(tables) \/ cancelled
          /\ tblPc' = "done"
          /\ UNCHANGED tblIdx
    /\ UNCHANGED <<tblErr, tblSent, faults>>
    /\ TblOnly

\* query.Scan(rows)
TblScan ==
    /\ tblPc = "scan"
    /\ \/ tblPc' = "send" /\ UNCHANGED <<tblErr, faults>>
       \/ tblPc' = "sendErr" /\ TblFail
    /\ UNCHANGED <<tblIdx, tblSent>>
    /\ TblOnly

\* select { case <-ctx.Done(): return
TblSendCancel ==
    /\ tblPc = "send"
    /\ cancelled
    /\ tblPc' = "done"
    /\ UNCHANGED <<tblIdx, tblErr, tblSent, faults>>
    /\ TblOnly

----------------------------------------------------------------------------
(* extractColumns: the correlator *)

\* What a step of the correlator alone keeps.
ColOnly == UNCHANGED <<inputVars, tblVars, runVars, cancelled, emitted, cancelMid>>

\* The goroutine returns; its deferred close(output) and rows.Close() run.
ColReturn(how) ==
    /\ colPc' = "done"
    /\ colExit' = how

ColColumnList ==
    /\ colPc = "list"
    /\ \/ colPc' = "exec" /\ UNCHANGED faults
       \/ colPc' = "sendErr" /\ faults' = faults \cup {"col"}
    /\ UNCHANGED <<colIdx, metaNil, meta, col, formalName, pulls, mip, colExit>>
    /\ ColOnly

ColExec ==
    /\ colPc = "exec"
    /\ \/ colPc' = "next" /\ UNCHANGED faults
       \/ colPc' = "sendErr" /\ faults' = faults \cup {"col"}
    /\ UNCHANGED <<colIdx, metaNil, meta, col, formalName, pulls, mip, colExit>>
    /\ ColOnly

\* A correlator that receives a table for every column row, held table or not.
ColNextAlwaysPull ==
    /\ colPc = "next"
    /\ \/ /\ colIdx < Len(columns)
          /\ colIdx' = colIdx + 1
          /\ colPc' = "pull"
       \/ /\ colIdx = Len(columns) \/ cancelled
          /\ colPc' = "flush"
          /\ UNCHANGED colIdx
    /\ UNCHANGED <<metaNil, meta, col, formalName, pulls, mip, colExit, faults>>
    /\ ColOnly

\* for rows.Next() { if meta == nil { ... } ... }: the cursor advances; a
\* table is pulled first when none is held.  The loop ends at the end of the
\* result set, and possibly earlier once the context is done.
ColNext ==
    /\ colPc = "next"
    /\ \/ /\ colIdx < Len(columns)
          /\ colIdx' = colIdx + 1
          /\ colPc' = IF metaNil THEN "pull" ELSE "scan"
       \/ /\ colIdx = Len(columns) \/ cancelled
          /\ colPc' = "flush"
          /\ UNCHANGED colIdx
    /\ UNCHANGED <<metaNil, meta, col, formalName, pulls, mip, colExit, faults>>
    /\ ColOnly

\* select { case <-ctx.Done(): return
ColPullCancel ==
    /\ colPc = "pull"
    /\ cancelled
    /\ ColReturn("cancel")
    /\ UNCHANGED <<colIdx, metaNil, meta, col, formalName, pulls, mip, faults>>
    /\ ColOnly

\* case mip := <-input with mip.Err == nil: meta = &mip.Data; a column held
\* over from the previous table is appended, after an error envelope when
\* the keys differ.
Pulled(m) ==
    /\ metaNil' = FALSE
    /\ pulls' = pulls + 1
    /\ IF col # 0 /\ m.key # formalName
       THEN /\ meta' = [m EXCEPT !.pull = pulls + 1]
            /\ colPc' = "mismatch"
       ELSE /\ meta' = IF col # 0
                       THEN AppendColumn([m EXCEPT !.pull = pulls + 1], col)
                       ELSE [m EXCEPT !.pull = pulls + 1]
            /\ colPc' = "scan"
    /\ UNCHANGED <<colIdx, col, formalName, mip, colExit, faults>>
    /\ UNCHANGED <<inputVars, runVars, cancelled, emitted, cancelMid>>

\* extractTables' send of a table row meets the correlator's receive.
ColPullData ==
    /\ colPc = "pull"
    /\ tblPc = "send"
    /\ tblPc' = "next"
    /\ tblSent' = Append(tblSent, tblIdx)
    /\ UNCHANGED <<tblIdx, tblErr>>
    /\ Pulled(toMetadata(tblIdx))

\* The table channel is closed: the receive yields the zero envelope, whose
\* Err is nil.
ColPullClosed ==
    /\ colPc = "pull"
    /\ tblPc = "done"
    /\ UNCHANGED tblVars
    /\ Pulled(ZeroEnv.data)

\* extractTables' send of its error envelope (output <- MetadataInProcess{
\* Err: err}) meets the correlator's receive; extractTables returns and closes
\* its output.
ColPullErr ==
    /\ colPc = "pull"
    /\ tblPc = "sendErr"
    /\ tblPc' = "done"
    /\ colPc' = "fwdErr"
    /\ mip' = ErrEnv(tblErr)
    /\ pulls' = pulls + 1
    /\ UNCHANGED <<tblIdx, tblErr, tblSent>>
    /\ UNCHANGED <<colIdx, metaNil, meta, col, formalName, colExit, faults>>
    /\ UNCHANGED <<inputVars, runVars, cancelled, emitted, cancelMid>>

\* A correlator that reports a table-stream error as an error of its own.
ColFwdErrOwn ==
    /\ colPc = "fwdErr"
    /\ WriterRecv(ErrEnv("col"))
    /\ ColReturn("fwdErr")
    /\ UNCHANGED <<colIdx, metaNil, meta, col, formalName, pulls, mip, faults>>
    /\ UNCHANGED <<inputVars, tblVars>>

\* if mip.Err != nil { output <- mip; return }
ColFwdErr ==
    /\ colPc = "fwdErr"
    /\ WriterRecv(mip)
    /\ ColReturn("fwdErr")
    /\ UNCHANGED <<colIdx, metaNil, meta, col, formalName, pulls, mip, faults>>
    /\ UNCHANGED <<inputVars, tblVars>>

\* A correlator that aborts on a key mismatch: error envelope, then return.
ColMismatchAbort ==
    /\ colPc = "mismatch"
    /\ WriterRecv(ErrEnv("mismatch"))
    /\ ColReturn("err")
    /\ UNCHANGED <<colIdx, metaNil, meta, col, formalName, pulls, mip, faults>>
    /\ UNCHANGED <<inputVars, tblVars>>

\* output <- MetadataInProcess{Err: err}; meta.Columns = append(..., *col)
ColMismatch ==
    /\ colPc = "mismatch"
    /\ WriterRecv(ErrEnv("mismatch"))
    /\ meta' = AppendColumn(meta, col)
    /\ colPc' = "scan"
    /\ UNCHANGED <<colIdx, metaNil, col, formalName, pulls, mip, colExit, faults>>
    /\ UNCHANGED <<inputVars, tblVars>>

\* m, err := query.Scan(rows); col, formalName = e.toColumn(m); the column is
\* appended when it belongs to the held table, otherwise the table is due.
ColScan ==
    /\ colPc = "scan"
    /\ \/ /\ col' = toColumn(colIdx).col
          /\ formalName' = toColumn(colIdx).formalName
          /\ IF meta.key = toColumn(colIdx).formalName
             THEN /\ meta' = AppendColumn(meta, toColumn(colIdx).col)
                  /\ colPc' = "next"
             ELSE /\ colPc' = "emit"
                  /\ UNCHANGED meta
          /\ UNCHANGED faults
       \/ /\ colPc' = "sendErr"
          /\ faults' = faults \cup {"col"}
          /\ UNCHANGED <<col, formalName, meta>>
    /\ UNCHANGED <<colIdx, metaNil, pulls, mip, colExit>>
    /\ ColOnly

\* case output <- MetadataInProcess{Data: *meta}: meta = nil
ColEmit ==
    /\ colPc = "emit"
    /\ WriterRecv(DataEnv(meta))
    /\ metaNil' = TRUE
    /\ meta' = ZeroMeta
    /\ colPc' = "next"
    /\ UNCHANGED <<colIdx, col, formalName, pulls, mip, colExit, faults>>
    /\ UNCHANGED <<inputVars, tblVars>>

ColEmitCancel ==
    /\ colPc = "emit"
    /\ cancelled
    /\ ColReturn("cancel")
    /\ UNCHANGED <<colIdx, metaNil, meta, col, formalName, pulls, mip, faults>>
    /\ ColOnly

\* A correlator that returns after the loop without the final send.
ColFlushDrop ==
    /\ colPc = "flush"
    /\ ~metaNil
    /\ ColReturn("end")
    /\ UNCHANGED <<colIdx, metaNil, meta, col, formalName, pulls, mip, faults>>
    /\ ColOnly

\* After the loop: if meta != nil { select { ... output <- Data: *meta } }
ColFlush ==
    /\ colPc = "flush"
    /\ ~metaNil
    /\ WriterRecv(DataEnv(meta))
    /\ ColReturn("flush")
    /\ UNCHANGED <<colIdx, metaNil, meta, col, formalName, pulls, mip, faults>>
    /\ UNCHANGED <<inputVars, tblVars>>

ColFlushCancel ==
    /\ colPc = "flush"
    /\ ~metaNil
    /\ cancelled
    /\ ColReturn("cancel")
    /\ UNCHANGED <<colIdx, metaNil, meta, col, formalName, pulls, mip, faults>>
    /\ ColOnly

ColFlushNone ==
    /\ colPc = "flush"
    /\ metaNil
    /\ ColReturn("end")
    /\ UNCHANGED <<colIdx, metaNil, meta, col, formalName, pulls, mip, faults>>
    /\ ColOnly

\* output <- MetadataInProcess{Err: err}; return  (ColumnList, Exec, Scan)
ColSendErr ==
    /\ colPc = "sendErr"
    /\ WriterRecv(ErrEnv("col"))
    /\ ColReturn("err")
    /\ UNCHANGED <<colIdx, metaNil, meta, col, formalName, pulls, mip, faults>>
    /\ UNCHANGED <<inputVars, tblVars>>

----------------------------------------------------------------------------
TblStep ==
    \/ TblColumnList
    \/ TblExec
    \/ TblNext
    \/ TblScan
    \/ TblSendCancel

ColStep ==
    \/ ColColumnList
    \/ ColExec
    \/ ColNext
    \/ ColPullCancel
    \/ ColPullData
    \/ ColPullClosed
    \/ ColPullErr
    \/ ColFwdErr
    \/ ColMismatch
    \/ ColScan
    \/ ColEmit
    \/ ColEmitCancel
    \/ ColFlush
    \/ ColFlushCancel
    \/ ColFlushNone
    \/ ColSendErr

RunStep ==
    \/ RunOpen
    \/ WriterCtxDone
    \/ WriterClosed
    \/ WriterWrite

Next ==
    \/ TblStep
    \/ ColStep
    \/ RunStep
    \/ Cancel

Spec == Init /\ [][Next]_vars

----------------------------------------------------------------------------
(* Properties *)

Range(f) == {f[i] : i \in DOMAIN f}

\* The Metadata values sent as data on the correlator's output, in order.
DataEnvs == SelectSeq(emitted, LAMBDA e : e.err = "")

\* A Metadata without the receive ordinal.
Proj(m) == [src |-> m.src, key |-> m.key, cols |-> m.cols]

\* The rows of the column result set owned by key k, in arrival order.
RECURSIVE ColsOfUpTo(_, _)
ColsOfUpTo(k, n) ==
    IF n = 0 THEN <<>>
    ELSE IF columns[n] = k THEN Append(ColsOfUpTo(k, n - 1), n)
         ELSE ColsOfUpTo(k, n - 1)

ColsOf(k) == ColsOfUpTo(k, Len(columns))

\* One Metadata per table row, in table order, with exactly its columns.
Expected ==
    [i \in 1..Len(tables) |->
        [src |-> i, key |-> tables[i], cols |-> ColsOf(tables[i])]]

\* Both result sets are ordered by key (Init) and every column key is the key
\* of a table row.
Ordered == \A j \in 1..Len(columns) : columns[j] \in Range(tables)

EveryTableHasColumn == \A i \in 1..Len(tables) : ColsOf(tables[i]) # <<>>

\* The correlator has returned in a run without failure or cancellation.
CleanEnd == colPc = "done" /\ faults = {} /\ ~cancelled

\* C1: with ordered inputs in which every table has a column row, a run
\* without error or cancellation emits exactly one Metadata per table, in
\* table order, holding that table's column rows in arrival order.
C1_Grouping ==
    (CleanEnd /\ Ordered /\ EveryTableHasColumn)
        => /\ Len(emitted) = Len(tables)
           /\ [i \in 1..Len(DataEnvs) |-> Proj(DataEnvs[i].data)] = Expected

\* C2: in a run without error or cancellation over ordered inputs, when the
\* correlator's output is closed it has emitted as many Metadata as the table
\* result set has rows.
C2_Cardinality ==
    (CleanEnd /\ Ordered) => Len(DataEnvs) = Len(tables)

\* C3: a table without column rows is emitted with empty Columns at the
\* position it has in the table sequence.
C3_EmptyColumnTable ==
    (CleanEnd /\ Ordered)
        => \A i \in 1..Len(tables) :
              ColsOf(tables[i]) = <<>>
                 => /\ Len(DataEnvs) >= i
                    /\ Proj(DataEnvs[i].data)
                          = [src |-> i, key |-> tables[i], cols |-> <<>>]

\* C4: once a stage has sent an error envelope (column discovery, query, row
\* scan, or a forwarded table-stream error), Run returns a non-nil error.
C4_StageErrorAborts ==
    (runPc = "returned" /\ \E i \in 1..Len(emitted) : emitted[i].err \in {"tbl", "col"})
        => runErr # "nil"

\* C5: when the caller cancels while records are being streamed (the
\* correlator has not returned yet and is stopped by the cancellation) and
\* nothing else fails, Run returns the context's error.
C5_CancellationReported ==
    (runPc = "returned" /\ cancelMid /\ colExit = "cancel" /\ faults = {"cancel"})
        => runErr = "ctx"

\* C6: after Run has returned, no stage is left blocked: when no step is
\* possible any more, both goroutines (if started) have returned.
C6_StagesStop ==
    (runPc = "returned" /\ ~ENABLED Next)
        => tblPc \in {"idle", "done"} /\ colPc \in {"idle", "done"}

\* Position of table row r among the rows the table producer has sent.
PosSent(r) == CHOOSE p \in 1..Len(tblSent) : tblSent[p] = r

\* C7: the Metadata written to the sink that come from table rows appear in
\* the order in which the table producer sent those rows.
C7_SinkOrder ==
    \A i, j \in 1..Len(sink) :
        (i < j /\ sink[i].src > 0 /\ sink[j].src > 0)
            => /\ sink[i].src \in Range(tblSent)
               /\ sink[j].src \in Range(tblSent)
               /\ PosSent(sink[i].src) < PosSent(sink[j].src)

C7_Witness ==
    /\ Len(sink) >= 3
    /\ sink[1].src > 0
    /\ sink[Len(sink)].src > sink[1].src
    /\ tblPc # "done"

\* C8: when the column result set is exhausted with a table held and the
\* context is not cancelled, the correlator leaves that point only by sending
\* the held table, which it has not sent before, and returning (closing its
\* output); after it has returned nothing more is emitted.
C8_TerminalFlush ==
    [][/\ (colPc = "flush" /\ ~metaNil /\ ~cancelled /\ colPc' # colPc)
            => /\ emitted' = Append(emitted, DataEnv(meta))
               /\ \A i \in 1..Len(emitted) : emitted[i].data.pull # meta.pull
               /\ colPc' = "done"
       /\ colPc = "done" => (emitted' = emitted /\ colPc' = "done")]_vars

C8_Witness ==
    /\ colExit = "flush"
    /\ ~cancelled
    /\ Len(emitted) >= 2
    /\ emitted[Len(emitted)] = DataEnv(meta)

\* C9: the correlator never holds a table the table producer did not send;
\* with the table stream exhausted it stops instead.
C9_NoUnsentTable ==
    ~metaNil => meta.src \in Range(tblSent)

\* C10: a pulled table whose key differs from the held column's owning key
\* leads to exactly one error envelope, after which the held column is
\* appended to that table and the correlator goes on scanning with its output
\* open.
C10_PermissiveMismatch ==
    [][/\ (colPc = "pull" /\ ~metaNil' /\ col # 0 /\ meta'.key # formalName)
            => (colPc' = "mismatch" /\ meta'.cols = <<>> /\ emitted' = emitted)
       /\ (colPc = "mismatch" /\ colPc' # colPc)
            => /\ Len(emitted') = Len(emitted) + 1
               /\ emitted'[Len(emitted')].err # ""
               /\ meta' = AppendColumn(meta, col)
               /\ ~metaNil'
               /\ colPc' = "scan"]_vars

C10_Witness ==
    /\ colPc = "scan"
    /\ ~metaNil
    /\ meta.src > 0
    /\ meta.cols = <<col>>
    /\ columns[col] # meta.key
    /\ Len(emitted) > 0
    /\ emitted[Len(emitted)].err = "mismatch"

\* C11: only envelopes whose Err is nil are serialized: the records in the
\* sink are the Data of the data envelopes the correlator emitted, in order.
C11_OnlyDataWritten ==
    /\ Len(sink) <= Len(DataEnvs)
    /\ \A i \in 1..Len(sink) : sink[i] = DataEnvs[i].data

\* C12: a failed write makes Run return that error at once, without a write;
\* after Run has returned the sink and the result never change, and the sink
\* only ever grows at its end.
C12_SinkFailureTerminal ==
    [][/\ ("sink" \in faults' /\ "sink" \notin faults)
            => (runPc' = "returned" /\ runErr' = "write" /\ sink' = sink)
       /\ runPc = "returned"
            => (runPc' = "returned" /\ runErr' = runErr /\ sink' = sink)
       /\ sink' # sink => \E m \in {cur.data} : sink' = Append(sink, m)]_vars

C12_Witness ==
    /\ runPc = "returned"
    /\ runErr = "write"
    /\ Len(sink) >= 2
    /\ Len(emitted) = Len(sink) + 1

\* Values received from the table channel and taken as a table.
DataPulls == pulls - (IF colPc = "fwdErr" \/ colExit = "fwdErr" THEN 1 ELSE 0)

\* C18: the correlator has received at most one table more than it has
\* emitted, and the table producer is at most one row ahead of the rows the
\* correlator has received (no row is buffered in the channel).
C18_SingleTableBuffer ==
    /\ DataPulls - Len(DataEnvs) \in {0, 1}
    /\ (metaNil => DataPulls = Len(DataEnvs))
    /\ tblIdx - Len(tblSent) \in {0, 1}
    /\ tblSent = [i \in 1..Len(tblSent) |-> i]

C18_Witness ==
    /\ ~metaNil
    /\ colPc = "scan"
    /\ Len(DataEnvs) >= 1
    /\ DataPulls = Len(DataEnvs) + 1
    /\ tblPc = "send"
    /\ tblIdx = Len(tblSent) + 1

StrictlyIncreasing(q) == \A i, j \in 1..Len(q) : i < j => q[i] < q[j]

\* C19: the Columns of every emitted Metadata, and of the held table, are
\* column rows in stream order, whether or not the column keys occur in the
\* table sequence.
C19_ColumnOrder ==
    /\ \A i \in 1..Len(emitted) :
          /\ StrictlyIncreasing(emitted[i].data.cols)
          /\ Range(emitted[i].data.cols) \subseteq 1..colIdx
    /\ StrictlyIncreasing(meta.cols)

C19_Witness ==
    /\ ~Ordered
    /\ \E i \in 1..Len(emitted) :
          /\ Len(emitted[i].data.cols) >= 2
          /\ \E j \in 1..Len(emitted[i].data.cols) :
                columns[emitted[i].data.cols[j]] # emitted[i].data.key

\* Number of occurrences of column row j in the emitted Metadata.
RECURSIVE Occurrences(_, _)
Occurrences(j, n) ==
    IF n = 0 THEN 0
    ELSE Occurrences(j, n - 1)
         + Cardinality({p \in 1..Len(DataEnvs[n].data.cols) :
                           DataEnvs[n].data.cols[p] = j})

\* C20: in a run without error or cancellation over ordered inputs, every
\* column row is in the Columns of exactly one emitted Metadata, once.
C20_ColumnConservation ==
    (CleanEnd /\ Ordered)
        => \A j \in 1..Len(columns) : Occurrences(j, Len(DataEnvs)) = 1

\* Every goroutine that can take a step eventually takes one (the Go
\* scheduler); a channel operation is a step of the correlator.  The caller's
\* cancellation and the failures are not forced.
FairSpec ==
    Spec /\ WF_vars(TblStep) /\ WF_vars(ColStep) /\ WF_vars(RunStep)

\* C21: in a run without database error, sink error or cancellation by the
\* caller, Run eventually returns nil and, its deferred cancel having fired,
\* the table producer goroutine eventually returns as well.
C21_NormalTermination ==
    <>(faults # {} \/ (runPc = "returned" /\ runErr = "nil" /\ tblPc = "done"))

\* C22: the error envelope the table producer sends is received by the
\* correlator while it holds no table; the correlator leaves that point only
\* by sending that same envelope on its output and returning (closing its
\* output), and emits nothing afterwards.
C22_ErrorForwarding ==
    [][/\ (tblPc = "sendErr" /\ tblPc' # tblPc)
            => /\ colPc = "pull" /\ colPc' = "fwdErr"
               /\ metaNil /\ metaNil'
               /\ mip' = ErrEnv(tblErr)
               /\ mip'.err # ""
               /\ emitted' = emitted
       /\ (colPc = "fwdErr" /\ colPc' # colPc)
            => /\ emitted' = Append(emitted, mip)
               /\ colPc' = "done"
               /\ colExit' = "fwdErr"
       /\ (colPc = "fwdErr" /\ colPc' = colPc) => emitted' = emitted
       /\ colExit = "fwdErr" => (emitted' = emitted /\ colPc' = "done")]_vars

C22_Witness ==
    /\ colExit = "fwdErr"
    /\ Len(emitted) >= 2
    /\ emitted[Len(emitted)] = ErrEnv("tbl")
    /\ emitted[1].err = ""
    /\ emitted[1].data.cols # <<>>
    /\ metaNil
    /\ col # 0

----------------------------------------------------------------------------
(* Metadata.ToCSVString (types.go) *)

\* A text is a sequence of tokens: the literal pieces of the format string
\* ("20", "30", ",", "\n") and the non-empty field values.  An empty string
\* contributes no token.
Str(v) == IF v = "" THEN <<>> ELSE <<v>>

MaxCsvCols == 2

MetaTypeName(t) ==
    CASE t = 1 -> "Table"
      [] t = 2 -> "Model"
      [] t = 3 -> "Stream"
      [] t = 4 -> "File"
      [] OTHER -> ""

\* A ModeName that confuses Nullable and Required.
ModeNameSwapped(md) ==
    CASE md = 0 -> "Required"
      [] md = 1 -> "Nullable"
      [] md = 2 -> "Repeated"
      [] OTHER -> ""

ModeName(md) ==
    CASE md = 0 -> "Nullable"
      [] md = 1 -> "Required"
      [] md = 2 -> "Repeated"
      [] OTHER -> ""

ConstraintName(k) == IF k = 1 THEN "Primary" ELSE ""

\* fmt.Sprintf("20,,%s,%s,%s,%s,%s\n", ...)
TableRecord(m) ==
    <<"20", ",", ",">> \o Str(m.FormalName) \o <<",">> \o Str(m.Alias)
        \o <<",">> \o Str(m.Description) \o <<",">> \o Str(m.Lang)
        \o <<",">> \o Str(MetaTypeName(m.MetaType)) \o <<"\n">>

\* fmt.Sprintf("30,,%s,%s,%s,%s,%s,%s\n", ...)
ColumnRecord(c) ==
    <<"30", ",", ",">> \o Str(c.Name) \o <<",">> \o Str(c.Alias)
        \o <<",">> \o Str(c.Description) \o <<",">> \o Str(c.Type)
        \o <<",">> \o Str(ModeName(c.Mode))
        \o <<",">> \o Str(ConstraintName(c.Constraint)) \o <<"\n">>

\* for _, c := range m.Columns { buf.WriteString(...) }
RECURSIVE ColumnRecords(_)
ColumnRecords(cs) ==
    IF cs = <<>> THEN <<>> ELSE ColumnRecord(Head(cs)) \o ColumnRecords(Tail(cs))

ToCSVString(m) == TableRecord(m) \o ColumnRecords(m.Columns) \o <<"\n">>

CsvColumns ==
    [Name : {"ID"}, Alias : {"", "a"}, Description : {""},
     Type : {"INTEGER"}, Mode : 0..3, Constraint : 0..2]

RECURSIVE SeqsUpTo(_, _)
SeqsUpTo(S, n) ==
    IF n = 0 THEN {<<>>}
    ELSE {<<>>} \cup {<<x>> \o q : x \in S, q \in SeqsUpTo(S, n - 1)}

CsvMetadata ==
    [FormalName : {"DB2INST1.EMP"}, Alias : {"", "A"}, Description : {"", "D"},
     Lang : {"ja"}, MetaType : 0..5, Columns : SeqsUpTo(CsvColumns, MaxCsvCols)]

InitCSV ==
    /\ PipeIdle
    /\ csv \in [op : {"in"}, m : CsvMetadata, out : {<<>>}]
    /\ row = Unused
    /\ cli = Unused
    /\ dia = Unused

\* m.ToCSVString()
CsvToString ==
    /\ csv.op = "in"
    /\ csv' = [op |-> "out", m |-> csv.m, out |-> ToCSVString(csv.m)]
    /\ UNCHANGED <<pipeVars, row, cli, dia>>

NextCSV == CsvToString

SpecCSV == InitCSV /\ [][NextCSV]_vars

\* The fields, joined by commas.
RECURSIVE JoinComma(_)
JoinComma(fs) ==
    IF Len(fs) = 0 THEN <<>>
    ELSE IF Len(fs) = 1 THEN Str(fs[1])
    ELSE Str(fs[1]) \o <<",">> \o JoinComma(Tail(fs))

\* The lines of a text: the token runs ended by "\n".
RECURSIVE Lines(_, _)
Lines(t, acc) ==
    IF t = <<>> THEN <<>>
    ELSE IF Head(t) = "\n" THEN <<acc>> \o Lines(Tail(t), <<>>)
    ELSE Lines(Tail(t), Append(acc, Head(t)))

ExpectedMetaType(t) == <<"Table", "Model", "Stream", "File">>[t]
ExpectedMode(md) == <<"Nullable", "Required", "Repeated">>[md + 1]
ExpectedConstraint(k) == <<"", "Primary">>[k + 1]

\* C13: the text of a Metadata is one "20" record, then one "30" record per
\* column in Columns order, then one empty line, every line ended by a line
\* feed; MetaType 1..4, Mode 0..2 and Constraint 0..1 have the stated names.
C13_Serialization ==
    csv.op = "out" =>
        LET ls == Lines(csv.out, <<>>)
            m == csv.m
            n == Len(m.Columns)
        IN /\ csv.out[Len(csv.out)] = "\n"
           /\ Len(ls) = n + 2
           /\ ls[n + 2] = <<>>
           /\ Len(ls[1]) >= 3 /\ SubSeq(ls[1], 1, 3) = <<"20", ",", ",">>
           /\ m.MetaType \in 1..4
                => ls[1] = JoinComma(<<"20", "", m.FormalName, m.Alias,
                                       m.Description, m.Lang,
                                       ExpectedMetaType(m.MetaType)>>)
           /\ \A i \in 1..n :
                 /\ Len(ls[i + 1]) >= 3
                 /\ SubSeq(ls[i + 1], 1, 3) = <<"30", ",", ",">>
                 /\ (m.Columns[i].Mode \in 0..2 /\ m.Columns[i].Constraint \in 0..1)
                      => ls[i + 1] =
                           JoinComma(<<"30", "", m.Columns[i].Name,
                                       m.Columns[i].Alias,
                                       m.Columns[i].Description,
                                       m.Columns[i].Type,
                                       ExpectedMode(m.Columns[i].Mode),
                                       ExpectedConstraint(m.Columns[i].Constraint)>>)

\* The literal example of the specification.
C13_Witness ==
    /\ csv.op = "out"
    /\ csv.m.MetaType = 1
    /\ csv.m.Alias = ""
    /\ csv.m.Description = ""
    /\ Len(csv.m.Columns) = 1
    /\ csv.m.Columns[1] = [Name |-> "ID", Alias |-> "", Description |-> "",
                           Type |-> "INTEGER", Mode |-> 1, Constraint |-> 1]
    /\ csv.out = <<"20", ",", ",", "DB2INST1.EMP", ",", ",", ",", "ja", ",",
                   "Table", "\n",
                   "30", ",", ",", "ID", ",", ",", ",", "INTEGER", ",",
                   "Required", ",", "Primary", "\n", "\n">>

----------------------------------------------------------------------------
(* Row.Map and ColumnValue.Scan (the query helper) *)

MaxNames == 2
MaxScans == 2

\* Names of the catalog view's columns, as ColumnList returns them.
NameOf(i) == <<"TABSCHEMA", "TABNAME", "REMARKS", "TYPE">>[i]

\* Values a driver hands to a Scanner.  Integer-valued floats stand for the
\* floats; a time is given by its RFC 3339 text.
DriverValues ==
    {[kind |-> "nil"]}
        \cup [kind : {"string", "bytes"}, v : {"", "EMP"}]
        \cup [kind : {"int"}, v : {-1, 0}]
        \cup [kind : {"uint"}, v : {7}]
        \cup [kind : {"float"}, v : {0}]
        \cup [kind : {"bool"}, v : BOOLEAN]
        \cup [kind : {"time"}, v : {"2024-01-02T03:04:05.000000006Z"}]

\* ColumnValue.Scan: the canonical string of a driver value.
Scan(x) ==
    CASE x.kind = "nil" -> ""
      [] x.kind \in {"string", "bytes", "time"} -> x.v
      [] x.kind \in {"int", "uint", "float"} -> ToString(x.v)
      [] x.kind = "bool" -> IF x.v THEN "true" ELSE "false"

\* A Map that keeps every name.
MapAll(names, values) ==
    [nm \in {names[i] : i \in 1..Len(names)} |->
        values[CHOOSE i \in 1..Len(names) : names[i] = nm]]

\* Row.Map: the names whose value is not empty, with their values.
Map(names, values) ==
    [nm \in {names[i] : i \in {k \in 1..Len(names) : values[k] # ""}} |->
        values[CHOOSE i \in 1..Len(names) : names[i] = nm]]

\* NewRow: one zero ColumnValue per name.
InitRow ==
    /\ PipeIdle
    /\ \E n \in 1..MaxNames :
          row = [op |-> "new",
                 names |-> [i \in 1..n |-> NameOf(i)],
                 src |-> [i \in 1..n |-> [kind |-> "nil"]],
                 values |-> [i \in 1..n |-> ""],
                 map |-> <<>>,
                 scans |-> 0]
    /\ csv = Unused
    /\ cli = Unused
    /\ dia = Unused

\* Query.Scan, first half: rows.Scan(q.row.pointers...) fills every value; the
\* mapping returned for the previous row is not part of the Row.
RowScan ==
    /\ row.op \in {"new", "mapped"}
    /\ row.scans < MaxScans
    /\ \E src \in [1..Len(row.names) -> DriverValues] :
          row' = [row EXCEPT !.op = "scanned",
                             !.src = src,
                             !.values = [i \in 1..Len(row.names) |-> Scan(src[i])],
                             !.map = <<>>,
                             !.scans = @ + 1]
    /\ UNCHANGED <<pipeVars, csv, cli, dia>>

\* Query.Scan, second half: return q.row.Map(), nil
RowMap ==
    /\ row.op = "scanned"
    /\ row' = [row EXCEPT !.op = "mapped", !.map = Map(row.names, row.values)]
    /\ UNCHANGED <<pipeVars, csv, cli, dia>>

NextRow == RowScan \/ RowMap

SpecRow == InitRow /\ [][NextRow]_vars

\* C14: a column name is a key of the mapping exactly when its canonical
\* value is not empty, and then maps to that value; NULL is canonicalized to
\* the empty string and is never a key, numbers, booleans and times always
\* are.
C14_ColumnOmission ==
    row.op = "mapped" =>
        \A i \in 1..Len(row.names) :
            /\ row.names[i] \in DOMAIN row.map <=> row.values[i] # ""
            /\ row.names[i] \in DOMAIN row.map
                  => row.map[row.names[i]] = row.values[i]
            /\ row.src[i].kind = "nil"
                  => (row.values[i] = "" /\ row.names[i] \notin DOMAIN row.map)
            /\ row.src[i].kind \in {"int", "uint", "float", "bool", "time"}
                  => row.names[i] \in DOMAIN row.map
            /\ row.src[i].kind \in {"string", "bytes"}
                  => (row.names[i] \in DOMAIN row.map <=> row.src[i].v # "")

C14_Witness ==
    /\ row.op = "mapped"
    /\ row.scans = 2
    /\ Len(row.names) = 2
    /\ row.src[1].kind = "nil"
    /\ row.src[2] = [kind |-> "int", v |-> 0]
    /\ DOMAIN row.map = {"TABNAME"}
    /\ row.map["TABNAME"] = "0"

----------------------------------------------------------------------------
(* main (main.go) *)

MaxSchemas == 2

Schemas == {"DB2INST1", "SYSCAT"}

\* The keys under which the init functions register an extractor.
Registered == {"SYSCAT", "SYSIBM", "QSYS2"}

\* Status the parent process sees for os.Exit(c): the low 8 bits.
ExitStatus(c) == c % 256

\* config.json as parsed: the fields main branches on.
InitCli ==
    /\ PipeIdle
    /\ \E t \in SeqsUpTo(Schemas, MaxSchemas), y \in Registered \cup {"OTHER"} :
          cli = [pc |-> "read",
                 file |-> [TargetSchema |-> t, SystemSchema |-> y],
                 config |-> [TargetSchema |-> <<>>, SystemSchema |-> ""],
                 calls |-> <<>>,
                 failed |-> "none",
                 exit |-> -1]
    /\ csv = Unused
    /\ row = Unused
    /\ dia = Unused

\* The process ends with status c after a failure at the given stage.
CliExit(stage, c) == [cli EXCEPT !.pc = "exited", !.failed = stage, !.exit = c]

CliOnly == UNCHANGED <<pipeVars, csv, row, dia>>

\* os.ReadFile("config.json")
CliRead ==
    /\ cli.pc = "read"
    /\ \/ cli' = [cli EXCEPT !.pc = "parse"]
       \/ cli' = CliExit("read", ExitStatus(-1))
    /\ CliOnly

\* json.Unmarshal(data, &config)
CliParse ==
    /\ cli.pc = "parse"
    /\ \/ cli' = [cli EXCEPT !.pc = "lookup", !.config = cli.file]
       \/ cli' = CliExit("parse", ExitStatus(-2))
    /\ CliOnly

\* GetExtractor(...) returns nil for an unregistered key; SetConfig on the nil
\* interface panics (status 2).
CliLookup ==
    /\ cli.pc = "lookup"
    /\ IF cli.config.SystemSchema \in Registered
       THEN cli' = [cli EXCEPT !.pc = "mode"]
       ELSE cli' = CliExit("panic", 2)
    /\ CliOnly

\* A main that takes the branches the other way round.
CliModeInverted ==
    /\ cli.pc = "mode"
    /\ cli' = [cli EXCEPT !.pc = IF Len(cli.config.TargetSchema) = 0
                                 THEN "create" ELSE "find"]
    /\ CliOnly

\* if len(config.TargetSchema) == 0 { ... } else { ... }
CliMode ==
    /\ cli.pc = "mode"
    /\ cli' = [cli EXCEPT !.pc = IF Len(cli.config.TargetSchema) = 0
                                 THEN "find" ELSE "create"]
    /\ CliOnly

\* extractor.FindSchema; config.TargetSchema = list
CliFindSchema ==
    /\ cli.pc = "find"
    /\ \/ \E l \in SeqsUpTo(Schemas, MaxSchemas) :
             cli' = [cli EXCEPT !.pc = "marshal",
                                !.calls = Append(@, <<"FindSchema">>),
                                !.config.TargetSchema = l]
       \/ cli' = [CliExit("discover", ExitStatus(-3))
                     EXCEPT !.calls = Append(@, <<"FindSchema">>)]
    /\ CliOnly

\* json.MarshalIndent(config, "", "  ")
CliMarshal ==
    /\ cli.pc = "marshal"
    /\ \/ cli' = [cli EXCEPT !.pc = "write"]
       \/ cli' = CliExit("marshal", ExitStatus(-4))
    /\ CliOnly

\* os.WriteFile("config.json", b, 0666): its error is not read; main returns.
CliWriteFile ==
    /\ cli.pc = "write"
    /\ cli' = [cli EXCEPT !.pc = "exited", !.exit = 0,
                          !.calls = Append(@, <<"WriteFile", cli.config.TargetSchema>>)]
    /\ CliOnly

\* os.Create(config.CSVFile)
CliCreate ==
    /\ cli.pc = "create"
    /\ \/ cli' = [cli EXCEPT !.pc = "run"]
       \/ cli' = CliExit("create", ExitStatus(-5))
    /\ CliOnly

\* err = extractor.Run(...); an error is printed, then main returns.
CliRun ==
    /\ cli.pc = "run"
    /\ \/ cli' = [cli EXCEPT !.pc = "exited", !.exit = 0,
                             !.calls = Append(@, <<"Run">>)]
       \/ cli' = [CliExit("extract", 0) EXCEPT !.calls = Append(@, <<"Run">>)]
    /\ CliOnly

NextCli ==
    \/ CliRead
    \/ CliParse
    \/ CliLookup
    \/ CliMode
    \/ CliFindSchema
    \/ CliMarshal
    \/ CliWriteFile
    \/ CliCreate
    \/ CliRun

SpecCli == InitCli /\ [][NextCli]_vars

ClaimedStages == {"read", "parse", "discover", "create", "extract"}

\* The stage an exit status stands for.
StageOfStatus(c) ==
    CASE c = 255 -> "read"
      [] c = 254 -> "parse"
      [] c = 253 -> "discover"
      [] c = 251 -> "create"
      [] OTHER -> "extract"

\* C15: a failure at one of the stages config read, config parse, schema
\* discovery, output-file creation and extraction ends the process with a
\* non-zero status that belongs to that stage alone.
C15_ExitCodes ==
    (cli.pc = "exited" /\ cli.failed \in ClaimedStages)
        => /\ cli.exit \in 1..255
           /\ StageOfStatus(cli.exit) = cli.failed

Called(f) == \E i \in 1..Len(cli.calls) : cli.calls[i][1] = f

\* C16: once the configuration is parsed: with an empty target-schema list
\* main calls FindSchema and, when
\* nothing fails, writes the discovered list back, and never calls Run; with
\* a non-empty list it calls Run once the output file exists and never calls
\* FindSchema nor writes the configuration.
C16_ModeSelection ==
    (cli.pc \notin {"read", "parse"} /\ cli.failed \notin {"read", "parse"}) =>
        IF Len(cli.file.TargetSchema) = 0
        THEN /\ ~Called("Run")
             /\ cli.pc \in {"marshal", "write"} => cli.calls = <<<<"FindSchema">>>>
             /\ (cli.pc = "exited" /\ cli.failed = "none")
                  => cli.calls = <<<<"FindSchema">>,
                                   <<"WriteFile", cli.config.TargetSchema>>>>
        ELSE /\ ~Called("FindSchema")
             /\ ~Called("WriteFile")
             /\ cli.config.TargetSchema = cli.file.TargetSchema
             /\ (cli.pc = "exited" /\ cli.failed \notin {"create", "panic"})
                  => cli.calls = <<<<"Run">>>>

C16_Witness ==
    /\ cli.pc = "exited"
    /\ cli.failed = "none"
    /\ Len(cli.file.TargetSchema) = 0
    /\ Len(cli.calls) = 2
    /\ cli.calls[2] = <<"WriteFile", <<"DB2INST1", "SYSCAT">>>>

----------------------------------------------------------------------------
(* The dialect mappers: toMetadata *)

\* A string is the sequence of its characters; "" is <<>>.  A row mapping is
\* a function from the names present to non-empty strings (Row.Map).

MaxRemarks == 2

Dialects == {"SYSCAT", "SYSIBM", "QSYS2"}

IsSpace(ch) == ch = " "

\* strings.TrimSpace
RECURSIVE TrimLeft(_)
TrimLeft(q) == IF q # <<>> /\ IsSpace(Head(q)) THEN TrimLeft(Tail(q)) ELSE q

RECURSIVE TrimRight(_)
TrimRight(q) ==
    IF q # <<>> /\ IsSpace(q[Len(q)]) THEN TrimRight(SubSeq(q, 1, Len(q) - 1)) ELSE q

TrimSpace(q) == TrimRight(TrimLeft(q))

\* v, ok := m[k]
Has(m, k) == k \in DOMAIN m

\* for _, str := range e.config.Remarks { switch str { ... } }
RECURSIVE RouteRemarks(_, _, _)
RouteRemarks(r, v, remarks) ==
    IF remarks = <<>> THEN r
    ELSE RouteRemarks(
            CASE Head(remarks) = "Alias" -> [r EXCEPT !.Alias = v]
              [] Head(remarks) = "Description" -> [r EXCEPT !.Description = v]
              [] OTHER -> r,
            v, Tail(remarks))

\* &Metadata{MetaType: 1, Lang: e.config.Lang}
NewMetadata(cfg) ==
    [Name |-> <<>>, Alias |-> <<>>, FormalName |-> <<>>, Description |-> <<>>,
     MetaType |-> 1, Lang |-> cfg.Lang]

\* Name and FormalName from the name field nk and the schema field sk.
WithNames(r, m, nk, sk) ==
    LET named == IF Has(m, nk) THEN [r EXCEPT !.Name = m[nk]] ELSE r
    IN IF Has(m, sk) /\ named.Name # <<>>
       THEN [named EXCEPT !.FormalName = TrimSpace(m[sk]) \o <<".">> \o named.Name]
       ELSE named

\* Db2Extractor.toMetadata: no comment field is read.
Db2ToMetadata(cfg, m) == WithNames(NewMetadata(cfg), m, "TABNAME", "TABSCHEMA")

\* ZDb2Extractor.toMetadata
ZDb2ToMetadata(cfg, m) ==
    LET r == WithNames(NewMetadata(cfg), m, "NAME", "CREATOR")
    IN IF Has(m, "REMARKS") THEN RouteRemarks(r, m["REMARKS"], cfg.Remarks) ELSE r

\* IDb2Extractor.toMetadata
IDb2ToMetadata(cfg, m) ==
    LET r == WithNames(NewMetadata(cfg), m, "TABLE_NAME", "TABLE_OWNER")
    IN IF Has(m, "LONG_COMMENT")
       THEN RouteRemarks(r, m["LONG_COMMENT"], cfg.Remarks) ELSE r

\* The extractor registered for the dialect.
ToMetadataOf(d, cfg, m) ==
    CASE d = "SYSCAT" -> Db2ToMetadata(cfg, m)
      [] d = "SYSIBM" -> ZDb2ToMetadata(cfg, m)
      [] d = "QSYS2" -> IDb2ToMetadata(cfg, m)

\* The catalog columns of the table view a dialect's mapper may see: name,
\* schema, comment.
TableFields(d) ==
    CASE d = "SYSCAT" -> <<"TABNAME", "TABSCHEMA", "REMARKS">>
      [] d = "SYSIBM" -> <<"NAME", "CREATOR", "REMARKS">>
      [] d = "QSYS2" -> <<"TABLE_NAME", "TABLE_OWNER", "LONG_COMMENT">>

\* The row mapping with the given values; an empty value is omitted.
RowOf(fields, vals) ==
    [k \in {fields[i] : i \in {j \in 1..Len(fields) : vals[j] # <<>>}} |->
        vals[CHOOSE i \in 1..Len(fields) : fields[i] = k]]

TableRows(d) ==
    {RowOf(TableFields(d), <<n, sc, rm>>) :
        n \in {<<>>, <<"E", "M", "P">>},
        sc \in {<<>>, <<"S">>, <<"S", " ">>},
        rm \in {<<>>, <<"r">>, <<"r", "2">>}}

Configs ==
    [Lang : {"ja"},
     Remarks : SeqsUpTo({"Alias", "Description", "Other"}, MaxRemarks)]

----------------------------------------------------------------------------
(* The dialect mappers: toColumn *)

\* col := &Column{}
NewColumn ==
    [Name |-> <<>>, Alias |-> <<>>, Description |-> <<>>, Type |-> <<>>,
     Mode |-> 0, Order |-> 0, KeyType |-> [Constraint |-> 0, Order |-> 0]]

IsDigit(ch) == ch \in {"0", "1", "2", "3", "4", "5", "6", "7", "8", "9"}

DigitVal(ch) ==
    CASE ch = "0" -> 0 [] ch = "1" -> 1 [] ch = "2" -> 2 [] ch = "3" -> 3
      [] ch = "4" -> 4 [] ch = "5" -> 5 [] ch = "6" -> 6 [] ch = "7" -> 7
      [] ch = "8" -> 8 [] ch = "9" -> 9

\* The value of a string of decimal digits.
RECURSIVE Decimal(_)
Decimal(q) ==
    IF q = <<>> THEN 0
    ELSE 10 * Decimal(SubSeq(q, 1, Len(q) - 1)) + DigitVal(q[Len(q)])

\* strconv.Atoi: an optional sign, then one or more decimal digits and
\* nothing else; no white space is skipped.  (Strings here are far shorter
\* than the 19 digits at which the value leaves the int range.)
Atoi(q) ==
    LET signed == q # <<>> /\ Head(q) \in {"+", "-"}
        digits == IF signed THEN Tail(q) ELSE q
    IN IF digits # <<>> /\ \A i \in 1..Len(digits) : IsDigit(digits[i])
       THEN [ok |-> TRUE,
             v |-> IF signed /\ Head(q) = "-" THEN 0 - Decimal(digits)
                   ELSE Decimal(digits)]
       ELSE [ok |-> FALSE, v |-> 0]

\* if v, ok := m[k]; ok { col.Name = v }
WithName(r, m, k) == IF Has(m, k) THEN [r EXCEPT !.Name = m[k]] ELSE r

\* if v, ok := m[k]; ok { col.Type = strings.TrimSpace(v) }
WithType(r, m, k) == IF Has(m, k) THEN [r EXCEPT !.Type = TrimSpace(m[k])] ELSE r

\* if v, ok := m[k]; ok { if v == "Y" { col.Mode = 0 } else { col.Mode = 1 } }
WithMode(r, m, k) ==
    IF Has(m, k) THEN [r EXCEPT !.Mode = IF m[k] = <<"Y">> THEN 0 ELSE 1] ELSE r

\* An order that marks an unparsable value with -1.
WithOrderMarked(r, m, k) ==
    IF Has(m, k)
    THEN [r EXCEPT !.Order = IF Atoi(m[k]).ok THEN Atoi(m[k]).v ELSE 0 - 1]
    ELSE r

\* if v, ok := m[k]; ok { i, err := strconv.Atoi(v); if err == nil {
\* col.Order = i } }
WithOrder(r, m, k) ==
    IF Has(m, k) /\ Atoi(m[k]).ok THEN [r EXCEPT !.Order = Atoi(m[k]).v] ELSE r

\* An owning key that keeps the padding of the schema.
OwnerKeyPadded(m, sk, nk) ==
    (IF Has(m, sk) THEN m[sk] ELSE <<>>)
        \o <<".">> \o (IF Has(m, nk) THEN m[nk] ELSE <<>>)

\* formalName: the trimmed schema field, ".", the table name field.
OwnerKey(m, sk, nk) ==
    (IF Has(m, sk) THEN TrimSpace(m[sk]) ELSE <<>>)
        \o <<".">> \o (IF Has(m, nk) THEN m[nk] ELSE <<>>)

\* A key sequence that makes every column carrying the field a key column.
WithKeySeqPresent(r, m, k) ==
    IF Has(m, k)
    THEN [r EXCEPT !.KeyType = [Constraint |-> 1, Order |-> Atoi(m[k]).v]]
    ELSE r

\* if v, ok := m["KEYSEQ"]; ok { i, err := strconv.Atoi(v); if err == nil {
\* col.KeyType.Constraint = 1; col.KeyType.Order = i } }
WithKeySeq(r, m, k) ==
    IF Has(m, k) /\ Atoi(m[k]).ok
    THEN [r EXCEPT !.KeyType = [Constraint |-> 1, Order |-> Atoi(m[k]).v]]
    ELSE r

\* if v, ok := m["IS_IDENTITY"]; ok { if v == "YES" { ... Constraint = 1;
\* ... Order = 0 } }
WithIdentity(r, m, k) ==
    IF Has(m, k) /\ m[k] = <<"Y", "E", "S">>
    THEN [r EXCEPT !.KeyType = [Constraint |-> 1, Order |-> 0]]
    ELSE r

\* A heading that only fills an Alias the remarks left empty.
WithHeadingIfEmpty(r, m, k) ==
    IF Has(m, k) /\ r.Alias = <<>> THEN [r EXCEPT !.Alias = m[k]] ELSE r

\* if v, ok := m[k]; ok { col.Alias = v }
WithHeading(r, m, k) == IF Has(m, k) THEN [r EXCEPT !.Alias = m[k]] ELSE r

\* if v, ok := m[k]; ok { for _, str := range e.config.Remarks { ... } }
WithRemarks(r, m, k, cfg) ==
    IF Has(m, k) THEN RouteRemarks(r, m[k], cfg.Remarks) ELSE r

\* Db2Extractor.toColumn
Db2ToColumn(cfg, m) ==
    LET c1 == WithName(NewColumn, m, "COLNAME")
        c2 == IF Has(m, "TYPENAME")
              THEN [c1 EXCEPT !.Type =
                       IF Has(m, "TYPESCHEMA")
                       THEN TrimSpace(m["TYPESCHEMA"]) \o <<".">> \o m["TYPENAME"]
                       ELSE m["TYPENAME"]]
              ELSE c1
        c3 == WithMode(c2, m, "NULLS")
        c4 == WithOrder(c3, m, "COLNO")
        c5 == WithKeySeq(c4, m, "KEYSEQ")
    IN [col |-> WithRemarks(c5, m, "REMARKS", cfg),
        formalName |-> OwnerKey(m, "TABSCHEMA", "TABNAME")]

\* ZDb2Extractor.toColumn
ZDb2ToColumn(cfg, m) ==
    LET c1 == WithName(NewColumn, m, "NAME")
        c2 == WithType(c1, m, "COLTYPE")
        c3 == WithMode(c2, m, "NULLS")
        c4 == WithOrder(c3, m, "COLNO")
        c5 == WithKeySeq(c4, m, "KEYSEQ")
        c6 == WithRemarks(c5, m, "REMARKS", cfg)
    IN [col |-> WithHeading(c6, m, "LABEL"),
        formalName |-> OwnerKey(m, "TBCREATOR", "TBNAME")]

\* IDb2Extractor.toColumn
IDb2ToColumn(cfg, m) ==
    LET c1 == WithName(NewColumn, m, "COLUMN_NAME")
        c2 == WithType(c1, m, "DATA_TYPE")
        c3 == WithMode(c2, m, "IS_NULLABLE")
        c4 == WithOrder(c3, m, "ORDINAL_POSITION")
        c5 == WithIdentity(c4, m, "IS_IDENTITY")
        c6 == WithRemarks(c5, m, "COLUMN_TEXT", cfg)
    IN [col |-> WithHeading(c6, m, "COLUMN_HEADING"),
        formalName |-> OwnerKey(m, "TABLE_OWNER", "TABLE_NAME")]

\* The extractor registered for the dialect.
ToColumnOf(d, cfg, m) ==
    CASE d = "SYSCAT" -> Db2ToColumn(cfg, m)
      [] d = "SYSIBM" -> ZDb2ToColumn(cfg, m)
      [] d = "QSYS2" -> IDb2ToColumn(cfg, m)

\* The catalog columns of the column view a dialect's mapper reads: name,
\* type, nullability, position, schema, table, key, comment, and the type
\* schema (SYSCAT) or the label/heading (SYSIBM, QSYS2).
ColumnFields(d) ==
    CASE d = "SYSCAT" -> <<"COLNAME", "TYPENAME", "NULLS", "COLNO", "TABSCHEMA",
                           "TABNAME", "KEYSEQ", "REMARKS", "TYPESCHEMA">>
      [] d = "SYSIBM" -> <<"NAME", "COLTYPE", "NULLS", "COLNO", "TBCREATOR",
                           "TBNAME", "KEYSEQ", "REMARKS", "LABEL">>
      [] d = "QSYS2" -> <<"COLUMN_NAME", "DATA_TYPE", "IS_NULLABLE",
                          "ORDINAL_POSITION", "TABLE_OWNER", "TABLE_NAME",
                          "IS_IDENTITY", "COLUMN_TEXT", "COLUMN_HEADING">>

\* Texts of the position field: integers, and texts strconv.Atoi rejects.
OrderValues ==
    {<<>>, <<"7">>, <<"1", "2">>, <<"-", "3">>, <<"x">>, <<"1", "x">>, <<" ", "1">>}

\* Texts of the schema field: CHAR columns come padded.
SchemaValues == {<<>>, <<"S">>, <<"S", " ">>, <<" ">>}

\* Texts of the key field.
KeyValues(d) ==
    IF d = "QSYS2" THEN {<<>>, <<"Y", "E", "S">>, <<"N", "O">>}
    ELSE {<<>>, <<"7">>, <<"x">>}

\* Texts of the dialect's ninth field.
ExtraValues(d) ==
    IF d = "SYSCAT" THEN {<<>>, <<"S", "Y", " ">>} ELSE {<<>>, <<"h">>}

ColumnRows(d) ==
    {RowOf(ColumnFields(d), <<<<"I", "D">>, ty, nu, ord, sc, tb, ks, rm, ex>>) :
        ty \in {<<>>, <<"I", "N", "T", " ">>},
        nu \in {<<>>, <<"Y">>, <<"N">>},
        ord \in OrderValues,
        sc \in SchemaValues,
        tb \in {<<>>, <<"E", "M", "P">>},
        ks \in KeyValues(d),
        rm \in {<<>>, <<"r">>},
        ex \in ExtraValues(d)}

\* The value of field k in a row mapping, "" when the field is omitted.
Field(m, k) == IF Has(m, k) THEN m[k] ELSE <<>>

\* The row of the table view for the table that owns column row c: the same
\* schema and table name, no comment.
OwnerRow(d, c) ==
    RowOf(TableFields(d),
          <<Field(c, ColumnFields(d)[6]), Field(c, ColumnFields(d)[5]), <<>>>>)

InitDia ==
    /\ PipeIdle
    /\ \E d \in Dialects, cfg \in Configs :
          \/ \E m \in TableRows(d) :
                dia = [op |-> "tableRow", dialect |-> d, cfg |-> cfg, m |-> m,
                       out |-> NewMetadata(cfg)]
          \/ \E c \in ColumnRows(d) :
                dia = [op |-> "columnRow", dialect |-> d, cfg |-> cfg,
                       m |-> OwnerRow(d, c), out |-> NewMetadata(cfg),
                       c |-> c, col |-> NewColumn, formalName |-> <<>>]
    /\ csv = Unused
    /\ row = Unused
    /\ cli = Unused

\* e.toMetadata(m)
DiaToMetadata ==
    /\ dia.op = "tableRow"
    /\ dia' = [dia EXCEPT !.op = "table",
                          !.out = ToMetadataOf(dia.dialect, dia.cfg, dia.m)]
    /\ UNCHANGED <<pipeVars, csv, row, cli>>

\* e.toMetadata(m) for the owning table of a column row
DiaOwner ==
    /\ dia.op = "columnRow"
    /\ dia' = [dia EXCEPT !.op = "owner",
                          !.out = ToMetadataOf(dia.dialect, dia.cfg, dia.m)]
    /\ UNCHANGED <<pipeVars, csv, row, cli>>

\* col, formalName = e.toColumn(m)
DiaToColumn ==
    /\ dia.op = "owner"
    /\ dia' = [dia EXCEPT
                  !.op = "column",
                  !.col = ToColumnOf(dia.dialect, dia.cfg, dia.c).col,
                  !.formalName = ToColumnOf(dia.dialect, dia.cfg, dia.c).formalName]
    /\ UNCHANGED <<pipeVars, csv, row, cli>>

NextDia ==
    \/ DiaToMetadata
    \/ DiaOwner
    \/ DiaToColumn

SpecDia == InitDia /\ [][NextDia]_vars

\* The comment field of the dialect's table view.
TableRemarksField(d) == TableFields(d)[3]

\* C17: for a table row that carries the dialect's comment field, Alias is
\* that value iff "Alias" is configured and Description is that value iff
\* "Description" is configured; what is not configured stays empty.
C17_TableRemarkRouting ==
    (dia.op = "table" /\ Has(dia.m, TableRemarksField(dia.dialect)))
        => LET v == dia.m[TableRemarksField(dia.dialect)]
               conf == Range(dia.cfg.Remarks)
           IN /\ dia.out.Alias = (IF "Alias" \in conf THEN v ELSE <<>>)
              /\ dia.out.Description = (IF "Description" \in conf THEN v ELSE <<>>)


\* The fields of the dialect's column view by role.
OrderField(d) == ColumnFields(d)[4]
SchemaField(d) == ColumnFields(d)[5]
TableField(d) == ColumnFields(d)[6]
KeyField(d) == ColumnFields(d)[7]
ColumnRemarksField(d) == ColumnFields(d)[8]
HeadingField(d) == ColumnFields(d)[9]

\* What strconv.Atoi is documented to return for the position texts.
ExpectedAtoi(q) ==
    CASE q = <<"7">> -> [ok |-> TRUE, v |-> 7]
      [] q = <<"1", "2">> -> [ok |-> TRUE, v |-> 12]
      [] q = <<"-", "3">> -> [ok |-> TRUE, v |-> 0 - 3]
      [] q \in {<<"x">>, <<"1", "x">>, <<" ", "1">>, <<>>} -> [ok |-> FALSE, v |-> 0]

\* What strings.TrimSpace is documented to return for the schema texts.
ExpectedTrim(q) ==
    CASE q = <<"S">> -> <<"S">>
      [] q = <<"S", " ">> -> <<"S">>
      [] q = <<" ">> -> <<>>

\* C23 as stated: the column is a primary-key column exactly when the
\* dialect's key field (KEYSEQ; IS_IDENTITY for QSYS2) is present in the row.
C23_KeyFieldPresence ==
    dia.op = "column"
        => dia.col.KeyType.Constraint
              = (IF Has(dia.c, KeyField(dia.dialect)) THEN 1 ELSE 0)

\* C23 amended: the column is a primary-key column exactly when the key field
\* is present and usable: KEYSEQ parses as an integer (SYSCAT, SYSIBM),
\* IS_IDENTITY equals "YES" (QSYS2).  Absent, or present with another value,
\* the Constraint stays None.
C23_PrimaryKey ==
    dia.op = "column"
        => LET k == KeyField(dia.dialect)
               usable == /\ Has(dia.c, k)
                         /\ IF dia.dialect = "QSYS2"
                            THEN dia.c[k] = <<"Y", "E", "S">>
                            ELSE ExpectedAtoi(dia.c[k]).ok
           IN dia.col.KeyType.Constraint = (IF usable THEN 1 ELSE 0)

C23_Witness ==
    /\ dia.op = "column"
    /\ dia.dialect = "QSYS2"
    /\ Has(dia.c, "IS_IDENTITY")
    /\ dia.c["IS_IDENTITY"] = <<"N", "O">>
    /\ dia.col.KeyType.Constraint = 0
    /\ dia.col.Name = <<"I", "D">>

\* C24: in SYSIBM and QSYS2, a column row that carries the label/heading
\* field gets that value as Alias whatever the remark routing and the comment
\* are; Description is the comment iff "Description" is configured and the
\* comment is present.
C24_AliasLastWriteWins ==
    (/\ dia.op = "column"
     /\ dia.dialect \in {"SYSIBM", "QSYS2"}
     /\ Has(dia.c, HeadingField(dia.dialect)))
        => /\ dia.col.Alias = dia.c[HeadingField(dia.dialect)]
           /\ dia.col.Description
                 = (IF /\ Has(dia.c, ColumnRemarksField(dia.dialect))
                       /\ "Description" \in Range(dia.cfg.Remarks)
                    THEN dia.c[ColumnRemarksField(dia.dialect)]
                    ELSE <<>>)

C24_Witness ==
    /\ dia.op = "column"
    /\ dia.dialect = "QSYS2"
    /\ dia.cfg.Remarks = <<"Alias", "Description">>
    /\ Has(dia.c, "COLUMN_HEADING")
    /\ Has(dia.c, "COLUMN_TEXT")
    /\ dia.col.Alias = <<"h">>
    /\ dia.col.Description = <<"r">>

\* The row mapping m with field k set to v.
WithField(m, k, v) == [f \in DOMAIN m \cup {k} |-> IF f = k THEN v ELSE m[f]]

\* C25: toColumn returns for every row; with the position field absent or not
\* an integer, Order is 0 and every other field and the owning key are those
\* of the same row with position "7"; with an integer, Order is that integer.
C25_TolerantOrder ==
    /\ dia.op = "owner" => ENABLED DiaToColumn
    /\ dia.op = "column"
          => LET k == OrderField(dia.dialect)
                 ref == ToColumnOf(dia.dialect, dia.cfg, WithField(dia.c, k, <<"7">>))
             IN IF Has(dia.c, k) /\ ExpectedAtoi(dia.c[k]).ok
                THEN dia.col.Order = ExpectedAtoi(dia.c[k]).v
                ELSE /\ dia.col.Order = 0
                     /\ [dia.col EXCEPT !.Order = 7] = ref.col
                     /\ dia.formalName = ref.formalName

C25_Witness ==
    /\ dia.op = "column"
    /\ Has(dia.c, OrderField(dia.dialect))
    /\ dia.c[OrderField(dia.dialect)] = <<" ", "1">>
    /\ dia.col.Order = 0
    /\ dia.col.KeyType.Constraint = 1
    /\ dia.col.Type # <<>>
    /\ dia.col.Mode = 1

\* C26: when the schema and the table name are both present, the FormalName
\* toMetadata gives the table row and the owning key toColumn gives a column
\* row of that table are the same text: the trimmed schema, ".", the name.
C26_KeyAgreement ==
    (/\ dia.op = "column"
     /\ Has(dia.c, SchemaField(dia.dialect))
     /\ Has(dia.c, TableField(dia.dialect)))
        => /\ dia.out.FormalName = dia.formalName
           /\ dia.formalName
                 = ExpectedTrim(dia.c[SchemaField(dia.dialect)]) \o <<".">>
                      \o dia.c[TableField(dia.dialect)]

C26_Witness ==
    /\ dia.op = "column"
    /\ Has(dia.c, SchemaField(dia.dialect))
    /\ dia.c[SchemaField(dia.dialect)] = <<"S", " ">>
    /\ dia.out.FormalName = <<"S", ".", "E", "M", "P">>
    /\ dia.formalName = <<"S", ".", "E", "M", "P">>

====
